---- MODULE Spec2Model ----
(***************************************************************************)
(* Model of homework.py: the fitness-tracker module (InfoMessage,          *)
(* Training and its subclasses Running, SportsWalking, Swimming,           *)
(* read_package, main and the __main__ driver loop).                       *)
(*                                                                         *)
(* Numbers.  Every quantity the module computes is a Python float, i.e. an *)
(* IEEE-754 binary64 value, and every operation (times, divide, plus,     *)
(* square) rounds its exact result to the nearest binary64 value, ties to  *)
(* even.  The model                                                        *)
(* keeps that arithmetic: a value is a record [s, m, e] standing for       *)
(* (-1)^s * m * 2^e, with m a natural number of exactly Precision bits (or *)
(* zero), held as a little-endian sequence of limbs in base Base because   *)
(* the model checker's own integers are 32 bits wide.  The exponent is not *)
(* bounded: overflow to infinity and subnormal numbers lie far outside the *)
(* inputs explored here.  Readings that are Python ints are represented by *)
(* the float of the same value; for the magnitudes explored (far below     *)
(* 2^53) int*int, int*float and int/int give the same results as the float *)
(* operations.                                                             *)
(***************************************************************************)
EXTENDS Integers, Sequences, FiniteSets, TLC

----------------------------------------------------------------------------
(* Results of calls: a returned value or a raised exception.               *)

Return(v) == [ok |-> TRUE, val |-> v, err |-> ""]

Raise(e) == [ok |-> FALSE, val |-> <<>>, err |-> e]

\* Python's None
None == [cls |-> "None"]

----------------------------------------------------------------------------
(* Python's arithmetic.  One recursive operator, Py(op, a, b, c), holds    *)
(* all of it, each arm one routine:                                        *)
(*   natural numbers of any size, as little-endian sequences of limbs in   *)
(*   base Base with no high zero limb (<<>> is 0);                         *)
(*   binary64 values [s, m, e] = (-1)^s * m * 2^e, m of Precision bits;    *)
(*   the evaluation of an arithmetic expression given as a tree, which     *)
(*   returns its value or raises.                                          *)

LimbBits == 15

Base == 2 ^ LimbBits

Precision == 53

FZero == [s |-> 0, m |-> <<>>, e |-> 0]

IsZero(x) == x.m = <<>>

RECURSIVE Py(_, _, _, _)
Py(op, a, b, c) ==
    CASE op = "trim" ->      \* a without its high zero limbs
           (IF a = <<>> THEN a
            ELSE IF a[Len(a)] = 0 THEN Py("trim", SubSeq(a, 1, Len(a) - 1), 0, 0)
            ELSE a)
      [] op = "zeros" ->     \* a limbs of zero
           (IF a = 0 THEN <<>> ELSE <<0>> \o Py("zeros", a - 1, 0, 0))
      [] op = "limbs" ->     \* the integer a >= 0 as limbs
           (IF a = 0 THEN <<>> ELSE <<a % Base>> \o Py("limbs", a \div Base, 0, 0))
      [] op = "int" ->       \* the limbs a as an integer
           (IF a = <<>> THEN 0 ELSE a[1] + Base * Py("int", Tail(a), 0, 0))
      [] op = "add" ->       \* a + b + c, c the carry
           (IF a = <<>> /\ b = <<>> THEN (IF c = 0 THEN <<>> ELSE <<c>>)
            ELSE LET x == (IF a = <<>> THEN 0 ELSE a[1])
                          + (IF b = <<>> THEN 0 ELSE b[1]) + c
                 IN  <<x % Base>> \o Py("add", IF a = <<>> THEN a ELSE Tail(a),
                                        IF b = <<>> THEN b ELSE Tail(b), x \div Base))
      [] op = "sub" ->       \* a - b - c for a >= b + c, c the borrow; not trimmed
           (IF a = <<>> THEN <<>>
            ELSE LET x == a[1] - (IF b = <<>> THEN 0 ELSE b[1]) - c
                 IN  <<x % Base>> \o Py("sub", Tail(a),
                                        IF b = <<>> THEN b ELSE Tail(b),
                                        IF x < 0 THEN 1 ELSE 0))
      [] op = "cmpat" ->     \* a against b on their limbs 1..c
           (IF c = 0 THEN 0
            ELSE IF a[c] < b[c] THEN -1
            ELSE IF a[c] > b[c] THEN 1
            ELSE Py("cmpat", a, b, c - 1))
      [] op = "cmp" ->       \* -1, 0, 1 as a < b, a = b, a > b
           (IF Len(a) < Len(b) THEN -1
            ELSE IF Len(a) > Len(b) THEN 1
            ELSE Py("cmpat", a, b, Len(a)))
      [] op = "muls" ->      \* a * b + c for 0 < b < Base, c < Base
           (IF a = <<>> THEN (IF c = 0 THEN <<>> ELSE <<c>>)
            ELSE LET x == a[1] * b + c
                 IN  <<x % Base>> \o Py("muls", Tail(a), b, x \div Base))
      [] op = "mul" ->       \* a * b
           (IF a = <<>> \/ b = <<>> THEN <<>>
            ELSE LET rest == Py("mul", a, Tail(b), 0)
                 IN  Py("add", IF b[1] = 0 THEN <<>> ELSE Py("muls", a, b[1], 0),
                        IF rest = <<>> THEN rest ELSE <<0>> \o rest, 0))
      [] op = "shl" ->       \* a * 2^b
           (IF a = <<>> THEN a
            ELSE Py("zeros", b \div LimbBits, 0, 0)
                 \o Py("muls", a, 2 ^ (b % LimbBits), 0))
      [] op = "divs" ->      \* floor((c * Base^Len(a) + a) / b) for c < b < Base;
                             \* not trimmed
           (IF a = <<>> THEN <<>>
            ELSE LET cur == c * Base + a[Len(a)]
                 IN  Py("divs", SubSeq(a, 1, Len(a) - 1), b, cur % b)
                     \o <<cur \div b>>)
      [] op = "shr" ->       \* floor(a / 2^b)
           (IF b \div LimbBits >= Len(a) THEN <<>>
            ELSE Py("trim", Py("divs", SubSeq(a, b \div LimbBits + 1, Len(a)),
                               2 ^ (b % LimbBits), 0), 0, 0))
      [] op = "low" ->       \* a mod 2^b
           (IF b \div LimbBits >= Len(a) THEN a
            ELSE Py("trim", SubSeq(a, 1, b \div LimbBits)
                            \o <<a[b \div LimbBits + 1] % (2 ^ (b % LimbBits))>>, 0, 0))
      [] op = "bits" ->      \* the number of bits of the integer a >= 0
           (IF a = 0 THEN 0 ELSE 1 + Py("bits", a \div 2, 0, 0))
      [] op = "bitlen" ->    \* the number of bits of the limbs a
           (IF a = <<>> THEN 0
            ELSE LimbBits * (Len(a) - 1) + Py("bits", a[Len(a)], 0, 0))
      [] op = "digitfix" ->  \* the largest d <= c with a * d <= b
           (IF c > 0 /\ Py("cmp", Py("muls", a, c, 0), b, 0) > 0
            THEN Py("digitfix", a, b, c - 1)
            ELSE c)
      [] op = "digit" ->     \* floor(a / b) for a < b * Base and b's top limb >=
                             \* Base / 2: the two top limbs of a over the top limb
                             \* of b overestimate it, by 2 at most
           (LET n   == Len(b)
                top == IF Len(a) > n THEN a[n + 1] * Base + a[n]
                       ELSE IF Len(a) = n THEN a[n]
                       ELSE 0
                est == top \div b[n]
            IN  Py("digitfix", b, a, IF est > Base - 1 THEN Base - 1 ELSE est))
      [] op = "divloop" ->   \* long division, a = <<x, y, i, q, rem>>: the limbs
                             \* of x above i are divided by y, with quotient q
                             \* and remainder rem; <<quotient, remainder>> of x
           (IF a[3] = 0 THEN <<a[4], a[5]>>
            ELSE LET rem == Py("trim", <<a[1][a[3]]>> \o a[5], 0, 0)
                     d   == Py("digit", rem, a[2], 0)
                 IN  Py("divloop",
                        <<a[1], a[2], a[3] - 1, Py("trim", <<d>> \o a[4], 0, 0),
                          Py("trim", Py("sub", rem,
                                        IF d = 0 THEN <<>> ELSE Py("muls", a[2], d, 0),
                                        0), 0, 0)>>,
                        0, 0))
      [] op = "divmod" ->    \* <<floor(a / b), a mod b>> for b # 0
           (LET sh == LimbBits - Py("bits", b[Len(b)], 0, 0)
                x  == Py("shl", a, sh, 0)
                qr == Py("divloop", <<x, Py("shl", b, sh, 0), Len(x), <<>>, <<>>>>, 0, 0)
            IN  <<qr[1], Py("shr", qr[2], sh, 0)>>)
      [] op = "round" ->     \* the binary64 value nearest to (-1)^b * a * 2^c,
                             \* ties to even
           (LET L == Py("bitlen", a, 0, 0)
            IN  IF a = <<>> THEN FZero
                ELSE IF L <= Precision
                THEN [s |-> b, m |-> Py("shl", a, Precision - L, 0),
                      e |-> c - (Precision - L)]
                ELSE LET sh   == L - Precision
                         q    == Py("shr", a, sh, 0)
                         half == Py("cmp", Py("low", a, sh, 0),
                                    Py("shl", <<1>>, sh - 1, 0), 0)
                         up   == half > 0 \/ (half = 0 /\ q[1] % 2 = 1)
                         q2   == IF up THEN Py("add", q, <<1>>, 0) ELSE q
                     IN  IF Py("bitlen", q2, 0, 0) > Precision
                         THEN [s |-> b, m |-> Py("shr", q2, 1, 0), e |-> c + sh + 1]
                         ELSE [s |-> b, m |-> q2, e |-> c + sh])
      [] op = "float" ->     \* float(a) for the Python int a
           (IF a < 0 THEN Py("round", Py("limbs", -a, 0, 0), 1, 0)
            ELSE Py("round", Py("limbs", a, 0, 0), 0, 0))
      [] op = "fmul" ->      \* a * b
           (IF IsZero(a) \/ IsZero(b) THEN FZero
            ELSE Py("round", Py("mul", a.m, b.m, 0), (a.s + b.s) % 2, a.e + b.e))
      [] op = "fdiv" ->      \* a / b for b # 0
           (IF IsZero(b) \/ IsZero(a) THEN FZero
            ELSE LET qr == Py("divmod", Py("shl", a.m, Precision + 2, 0), b.m, 0)
                 IN  Py("round",
                        Py("add", Py("shl", qr[1], 1, 0),
                           IF qr[2] = <<>> THEN <<>> ELSE <<1>>, 0),
                        (a.s + b.s) % 2, a.e - b.e - (Precision + 2) - 1))
      [] op = "fadd" ->      \* a + b
           (IF IsZero(a) THEN b
            ELSE IF IsZero(b) THEN a
            ELSE LET e == IF a.e < b.e THEN a.e ELSE b.e
                     X == Py("shl", a.m, a.e - e, 0)
                     Y == Py("shl", b.m, b.e - e, 0)
                     k == Py("cmp", X, Y, 0)
                 IN  IF a.s = b.s THEN Py("round", Py("add", X, Y, 0), a.s, e)
                     ELSE IF k = 0 THEN FZero
                     ELSE IF k > 0
                     THEN Py("round", Py("trim", Py("sub", X, Y, 0), 0, 0), a.s, e)
                     ELSE Py("round", Py("trim", Py("sub", Y, X, 0), 0, 0), b.s, e))
      [] op = "fmt3" ->      \* '{:.3f}'.format(a) as a count of thousandths: the
                             \* exact value of a to three decimals, ties to even
           (IF IsZero(a) THEN 0
            ELSE LET N    == Py("muls", a.m, 1000, 0)
                     q    == Py("shr", N, -a.e, 0)
                     half == Py("cmp", Py("low", N, -a.e, 0),
                                Py("shl", <<1>>, -a.e - 1, 0), 0)
                     up   == half > 0 \/ (half = 0 /\ q # <<>> /\ q[1] % 2 = 1)
                     mag  == IF a.e >= 0 THEN Py("int", Py("shl", N, a.e, 0), 0, 0)
                             ELSE Py("int", IF up THEN Py("add", q, <<1>>, 0) ELSE q,
                                     0, 0)
                 IN  IF a.s = 1 THEN -mag ELSE mag)
      [] op = "eval" ->      \* the expression tree a: <<"const", value>>,
                             \* <<"raise", exception>>, <<"**2", x>>, <<"*", x, y>>,
                             \* <<"/", x, y>>, <<"+", x, y>>; operands left to
                             \* right, the first exception ends the evaluation
           (IF a[1] = "const" THEN Return(a[2])
            ELSE IF a[1] = "raise" THEN Raise(a[2])
            ELSE LET l == Py("eval", a[2], 0, 0)
                     r == IF a[1] = "**2" THEN l ELSE Py("eval", a[3], 0, 0)
                 IN  IF ~l.ok THEN l
                     ELSE IF ~r.ok THEN r
                     ELSE IF a[1] = "/" /\ IsZero(r.val)
                     THEN Raise("ZeroDivisionError")
                     ELSE Return(Py(IF a[1] = "/" THEN "fdiv"
                                    ELSE IF a[1] = "+" THEN "fadd"
                                    ELSE "fmul", l.val, r.val, 0)))

\* float(n) for a Python int n
FromInt(n) == Py("float", n, 0, 0)

FMul(x, y) == Py("fmul", x, y, 0)

FDiv(x, y) == Py("fdiv", x, y, 0)

FAdd(x, y) == Py("fadd", x, y, 0)

FNeg(x) == IF IsZero(x) THEN x ELSE [x EXCEPT !.s = 1 - x.s]

FSub(x, y) == FAdd(x, FNeg(y))

\* -1, 0, 1 as x < y, x = y, x > y
FCmp(x, y) ==
    LET d == FSub(x, y)
    IN  IF IsZero(d) THEN 0 ELSE IF d.s = 1 THEN -1 ELSE 1

FLess(x, y) == FCmp(x, y) < 0

FLeq(x, y) == FCmp(x, y) <= 0

\* the float a decimal literal p/q denotes: the nearest to p/q, as the parser
\* of literals returns it
FLit(p, q) == FDiv(FromInt(p), FromInt(q))

\* '{:.3f}'.format(x), as a count of thousandths
Fmt3(x) == Py("fmt3", x, 0, 0)

\* expression trees
Const(x) == <<"const", x>>

Mul(x, y) == <<"*", x, y>>

Div(x, y) == <<"/", x, y>>

Add(x, y) == <<"+", x, y>>

Square(x) == <<"**2", x>>

Throw(e) == <<"raise", e>>

Eval(x) == Py("eval", x, 0, 0)

----------------------------------------------------------------------------
(* class Training and its subclasses                                       *)

\* LEN_STEP as it would be were line 114 missing
LEN_STEP_not_overridden(cls) == FLit(65, 100)

LEN_STEP(cls) == IF cls = "Swimming" THEN FLit(138, 100) ELSE FLit(65, 100)

M_IN_KM == FromInt(1000)

\* line 31 with the minutes of an hour miscounted
MIN_IN_HOUR_wrong == FromInt(100)

MIN_IN_HOUR == FromInt(60)

CALORIES_MEAN_SPEED_MULTIPLIER == FromInt(18)

\* line 70 with the sign of the shift changed
CALORIES_MEAN_SPEED_SHIFT_negative == FLit(-179, 100)

CALORIES_MEAN_SPEED_SHIFT == FLit(179, 100)

\* line 85 with the factor 1000/3600 rounded otherwise
KMH_IN_MS_wrong == FLit(28, 100)

KMH_IN_MS == FLit(278, 1000)

SPEED_HEIGHT_SHIFT == FLit(35, 1000)

SPEED_HEIGHT_MULTIPLIER == FLit(29, 1000)

CM_IN_M == FromInt(100)

SPEED_MODIFIER == FLit(11, 10)

MULTIPLIER == FromInt(2)

\* Training.__init__(action, duration, weight); Running inherits it
Training_init(cls, action, duration, weight) ==
    [cls |-> cls, action |-> action, duration |-> duration, weight |-> weight]

\* SportsWalking.__init__(action, duration, weight, height)
SportsWalking_init(action, duration, weight, height) ==
    [cls |-> "SportsWalking", action |-> action, duration |-> duration,
     weight |-> weight, height |-> height]

\* lines 126-127 with the two pool readings stored in each other's field
Swimming_init_swapped(action, duration, weight, length_pool, count_pool) ==
    [cls |-> "Swimming", action |-> action, duration |-> duration,
     weight |-> weight, length_pool |-> count_pool, count_pool |-> length_pool]

\* Swimming.__init__(action, duration, weight, length_pool, count_pool)
Swimming_init(action, duration, weight, length_pool, count_pool) ==
    [cls |-> "Swimming", action |-> action, duration |-> duration,
     weight |-> weight, length_pool |-> length_pool, count_pool |-> count_pool]

\* cls(*data): the positional call of a class with the readings; a wrong
\* number of readings raises TypeError
New(cls, data) ==
    IF cls = "Swimming"
    THEN (IF Len(data) # 5 THEN Raise("TypeError")
          ELSE Return(Swimming_init(data[1], data[2], data[3], data[4], data[5])))
    ELSE IF cls = "SportsWalking"
    THEN (IF Len(data) # 4 THEN Raise("TypeError")
          ELSE Return(SportsWalking_init(data[1], data[2], data[3], data[4])))
    ELSE (IF Len(data) # 3 THEN Raise("TypeError")
          ELSE Return(Training_init(cls, data[1], data[2], data[3])))

\* line 45 without the conversion of metres to kilometres
get_distance_in_metres(t) ==
    Mul(Const(t.action), Const(LEN_STEP(t.cls)))

\* Training.get_distance (inherited by all three subclasses): the expression
\* it returns
get_distance(t) ==
    Div(Mul(Const(t.action), Const(LEN_STEP(t.cls))), Const(M_IN_KM))

\* Training.get_mean_speed were Swimming not to override it
get_mean_speed_not_overridden(t) ==
    Div(Div(Mul(Const(t.action), Const(LEN_STEP(t.cls))), Const(M_IN_KM)),
        Const(t.duration))

\* Training.get_mean_speed, overridden by Swimming.get_mean_speed
get_mean_speed(t) ==
    IF t.cls = "Swimming"
    THEN Div(Div(Mul(Const(t.length_pool), Const(t.count_pool)), Const(M_IN_KM)),
             Const(t.duration))
    ELSE Div(get_distance(t), Const(t.duration))

\* Running.get_spent_calories
Running_get_spent_calories(t) ==
    LET mean_speed == get_mean_speed(t)
        duration_in_minutes == Mul(Const(t.duration), Const(MIN_IN_HOUR))
    IN  Mul(Div(Mul(Add(Mul(Const(CALORIES_MEAN_SPEED_MULTIPLIER), mean_speed),
                        Const(CALORIES_MEAN_SPEED_SHIFT)),
                    Const(t.weight)),
                Const(M_IN_KM)),
            duration_in_minutes)

\* SportsWalking.get_spent_calories
SportsWalking_get_spent_calories(t) ==
    LET mean_speed_in_ms == Mul(get_mean_speed(t), Const(KMH_IN_MS))
        duration_in_minutes == Mul(Const(t.duration), Const(MIN_IN_HOUR))
        height_in_m == Div(Const(t.height), Const(CM_IN_M))
    IN  Mul(Mul(Const(t.weight), duration_in_minutes),
            Add(Const(SPEED_HEIGHT_SHIFT),
                Mul(Const(SPEED_HEIGHT_MULTIPLIER),
                    Div(Square(mean_speed_in_ms), height_in_m))))

\* Swimming.get_spent_calories
Swimming_get_spent_calories(t) ==
    Mul(Mul(Mul(Add(get_mean_speed(t), Const(SPEED_MODIFIER)), Const(MULTIPLIER)),
            Const(t.weight)),
        Const(t.duration))

\* get_spent_calories were the base class's to return 0 instead of raising
get_spent_calories_base_returns(t) ==
    IF t.cls = "Running" THEN Running_get_spent_calories(t)
    ELSE IF t.cls = "SportsWalking" THEN SportsWalking_get_spent_calories(t)
    ELSE IF t.cls = "Swimming" THEN Swimming_get_spent_calories(t)
    ELSE Const(FZero)

\* get_spent_calories as the method resolution order finds it; the base
\* class's raises NotImplementedError
get_spent_calories(t) ==
    IF t.cls = "Running" THEN Running_get_spent_calories(t)
    ELSE IF t.cls = "SportsWalking" THEN SportsWalking_get_spent_calories(t)
    ELSE IF t.cls = "Swimming" THEN Swimming_get_spent_calories(t)
    ELSE Throw("NotImplementedError")

\* Training.show_training_info: the arguments of InfoMessage(...) are evaluated
\* left to right, and the first exception ends the call
show_training_info(t) ==
    LET distance == Eval(get_distance(t))
        speed    == Eval(get_mean_speed(t))
        calories == Eval(get_spent_calories(t))
    IN  IF ~distance.ok THEN distance
        ELSE IF ~speed.ok THEN speed
        ELSE IF ~calories.ok THEN calories
        ELSE Return([training_type |-> t.cls, duration |-> t.duration,
                     distance |-> distance.val, speed |-> speed.val,
                     calories |-> calories.val])

\* InfoMessage.get_message: the template filled in, every number with '{:.3f}';
\* the line is held as its five fields, the numbers as counts of thousandths
get_message(info) ==
    [training_type |-> info.training_type, duration |-> Fmt3(info.duration),
     distance |-> Fmt3(info.distance), speed |-> Fmt3(info.speed),
     calories |-> Fmt3(info.calories)]

\* the line the driver prints for an unknown workout type
UnknownTypeMessage == [training_type |-> "unknown", duration |-> 0,
                       distance |-> 0, speed |-> 0, calories |-> 0]

----------------------------------------------------------------------------
(* read_package                                                             *)

training_types == [SWM |-> "Swimming", RUN |-> "Running", WLK |-> "SportsWalking"]

\* lines 149-150 without the membership test: the lookup raises on a key the
\* dictionary does not hold
read_package_unguarded(workout_type, data) ==
    IF workout_type \in DOMAIN training_types
    THEN New(training_types[workout_type], data)
    ELSE Raise("KeyError")

read_package(workout_type, data) ==
    IF workout_type \in DOMAIN training_types
    THEN New(training_types[workout_type], data)
    ELSE Return(None)

----------------------------------------------------------------------------
(* Inputs                                                                   *)

\* the longest package list the driver is run on
MaxPackages == 3

\* the packages of the __main__ block
SWM_Sample == <<"SWM", <<FromInt(720), FromInt(1), FromInt(80), FromInt(25), FromInt(40)>>>>

RUN_Sample == <<"RUN", <<FromInt(15000), FromInt(1), FromInt(75)>>>>

WLK_Sample == <<"WLK", <<FromInt(9000), FromInt(1), FromInt(75), FromInt(180)>>>>

packages_main == <<SWM_Sample, RUN_Sample, WLK_Sample>>

\* further packages: an unknown type, a reading missing, a zero duration
XYZ_Package == <<"XYZ", <<FromInt(100), FromInt(1), FromInt(70)>>>>

Short_Package == <<"WLK", <<FromInt(9000), FromInt(1), FromInt(75)>>>>

Zero_Package == <<"RUN", <<FromInt(15000), FromInt(0), FromInt(75)>>>>

DriverPackages ==
    {SWM_Sample, RUN_Sample, WLK_Sample, XYZ_Package, Short_Package, Zero_Package}

\* the float after x, for x > 0 (math.nextafter(x, inf)); x's fraction is not
\* all ones for the inputs below
NextAfter(x) == [x EXCEPT !.m = Py("add", x.m, <<1>>, 0)]

\* readings for single calls.  100.00000000000001 is the float after 100.
Actions == {FromInt(-9000), FromInt(0), FromInt(7), FromInt(720), FromInt(9000),
            FromInt(15000)}

Durations == {FromInt(0), FromInt(1), FromInt(3)}

Weights == {FromInt(75), FromInt(80), FromInt(100), NextAfter(FromInt(100))}

Heights == {FromInt(0), FromInt(180)}

PoolLengths == {FromInt(25), FromInt(50)}

PoolCounts == {FromInt(0), FromInt(9), FromInt(40)}

UnitPackages ==
    {<<"RUN", <<a, d, w>>>> : a \in Actions, d \in Durations, w \in Weights}
    \cup {<<"WLK", <<a, d, w, h>>>> :
              a \in Actions, d \in Durations, w \in Weights, h \in Heights}
    \cup {<<"SWM", <<a, d, w, l, c>>>> :
              a \in Actions, d \in Durations, w \in Weights,
              l \in PoolLengths, c \in PoolCounts}
    \cup {XYZ_Package, Short_Package}

\* records importing code can build and hand to main: of the base class, and
\* of each subclass
CallTrainings ==
    {Training_init("Training", a, d, w) :
         a \in Actions, d \in Durations, w \in Weights}
    \cup {Training_init("Running", FromInt(15000), FromInt(1), FromInt(75)),
          SportsWalking_init(FromInt(9000), FromInt(1), FromInt(75), FromInt(180)),
          Swimming_init(FromInt(720), FromInt(1), FromInt(80), FromInt(25),
                        FromInt(40))}

\* the lists over S of length n at most
ListsUpTo(S, n) == UNION {[1..k -> S] : k \in 0..n}

----------------------------------------------------------------------------
(* The program: the __main__ block (frame "script") looping over packages, *)
(* or main(training) called by importing code (frame "call").             *)

VARIABLES
    frame,      \* "script": the __main__ block runs; "call": main() was called
    packages,   \* the list the for loop iterates
    idx,        \* 1-based position of the loop in packages
    training,   \* the local `training`
    info,       \* main's local `info`
    stdout,     \* the lines printed so far
    pc,         \* "loop", "main", "print", "else", "done", "raised"
    err         \* the exception that ended the program, "" if none

vars == <<frame, packages, idx, training, info, stdout, pc, err>>

Init ==
    /\ frame = "script"
    /\ packages \in ListsUpTo(DriverPackages, MaxPackages)
    /\ idx = 1
    /\ training = None
    /\ info = None
    /\ stdout = <<>>
    /\ pc = "loop"
    /\ err = ""

\* lines 168-170 and 149-150: the next package is taken and read_package is called on it
NextPackage ==
    /\ pc = "loop"
    /\ idx <= Len(packages)
    /\ LET r == read_package(packages[idx][1], packages[idx][2])
       IN  IF r.ok
           THEN /\ training' = r.val
                /\ pc' = IF r.val.cls # "None" THEN "main" ELSE "else"
                /\ err' = err
           ELSE /\ training' = training
                /\ pc' = "raised"
                /\ err' = r.err
    /\ UNCHANGED <<frame, packages, idx, info, stdout>>

\* line 157: main builds the InfoMessage
ShowTrainingInfo ==
    /\ pc = "main"
    /\ LET r == show_training_info(training)
       IN  IF r.ok
           THEN /\ info' = r.val
                /\ pc' = "print"
                /\ err' = err
           ELSE /\ info' = info
                /\ pc' = "raised"
                /\ err' = r.err
    /\ UNCHANGED <<frame, packages, idx, training, stdout>>

\* line 158: main prints the message and returns
PrintMessage ==
    /\ pc = "print"
    /\ stdout' = Append(stdout, get_message(info))
    /\ IF frame = "script"
       THEN idx' = idx + 1 /\ pc' = "loop"
       ELSE idx' = idx /\ pc' = "done"
    /\ UNCHANGED <<frame, packages, training, info, err>>

\* lines 172-173 followed by a break
PrintUnknown_break ==
    /\ pc = "else"
    /\ stdout' = Append(stdout, UnknownTypeMessage)
    /\ idx' = idx
    /\ pc' = "done"
    /\ UNCHANGED <<frame, packages, training, info, err>>

\* lines 172-173: no training was built
PrintUnknown ==
    /\ pc = "else"
    /\ stdout' = Append(stdout, UnknownTypeMessage)
    /\ idx' = idx + 1
    /\ pc' = "loop"
    /\ UNCHANGED <<frame, packages, training, info, err>>

\* the for loop is exhausted
LoopEnd ==
    /\ pc = "loop"
    /\ idx > Len(packages)
    /\ pc' = "done"
    /\ UNCHANGED <<frame, packages, idx, training, info, stdout, err>>

Next ==
    \/ NextPackage
    \/ ShowTrainingInfo
    \/ PrintMessage
    \/ PrintUnknown
    \/ LoopEnd

Spec == Init /\ [][Next]_vars

\* single calls: the __main__ block on one package, or main(training) called on
\* a record built directly
InitUnit ==
    /\ info = None
    /\ stdout = <<>>
    /\ err = ""
    /\ idx = 1
    /\ \/ /\ frame = "script"
          /\ packages \in {<<p>> : p \in UnitPackages}
          /\ training = None
          /\ pc = "loop"
       \/ /\ frame = "call"
          /\ packages = <<>>
          /\ training \in CallTrainings
          /\ pc = "main"

SpecUnit == InitUnit /\ [][Next]_vars

----------------------------------------------------------------------------
(* Properties.  Readings and results are floats; the comparisons below are *)
(* those of the floats.                                                    *)

FAbs(x) == IF IsZero(x) THEN x ELSE [x EXCEPT !.s = 0]

\* |x - y| < tol
Near(x, y, tol) == FLess(FAbs(FSub(x, y)), tol)

\* 1e-15, a few units in the last place of 1.0
Tol == FDiv(FLit(1, 1000000000), FromInt(1000000))

\* |x - y| <= 1e-15 * |y|
Close(x, y) == FLeq(FAbs(FSub(x, y)), FMul(FAbs(y), Tol))

KnownTags == {"SWM", "RUN", "WLK"}

\* the __main__ block has the report of package p in hand
ReportOf(p) == frame = "script" /\ pc = "print" /\ packages[idx] = p

\* C1: a tag outside {SWM, RUN, WLK} makes read_package return None: no
\* record is built and no KeyError is raised; the __main__ block then prints
\* the unknown-type message as the line of that package.
C1_UnknownTagYieldsNone ==
    /\ err # "KeyError"
    /\ \A k \in 1..Len(packages) :
          packages[k][1] \notin KnownTags =>
              LET r == read_package(packages[k][1], packages[k][2])
              IN  /\ r.ok
                  /\ r.val = None
                  /\ k < idx => /\ k <= Len(stdout)
                                /\ stdout[k] = UnknownTypeMessage
    /\ (/\ frame = "script"
        /\ pc \in {"main", "print", "else", "raised"}
        /\ packages[idx][1] \notin KnownTags)
         => pc = "else" /\ training = None

C1_Witness ==
    /\ pc = "done"
    /\ Len(packages) = 2
    /\ packages[1] = XYZ_Package
    /\ stdout[1] = UnknownTypeMessage
    /\ stdout[2] # UnknownTypeMessage

\* C2: read_package builds a Swimming for SWM, a Running for RUN and a
\* SportsWalking for WLK, and the readings become the record's fields by
\* position: action, duration, weight, then height for WLK, and length_pool,
\* count_pool for SWM.
C2_PositionalMapping ==
    (frame = "script" /\ pc \in {"main", "print"}) =>
        LET tag == packages[idx][1]
            data == packages[idx][2]
        IN  /\ tag \in KnownTags
            /\ tag = "RUN" =>
                  /\ Len(data) = 3
                  /\ training = [cls |-> "Running", action |-> data[1],
                                 duration |-> data[2], weight |-> data[3]]
            /\ tag = "WLK" =>
                  /\ Len(data) = 4
                  /\ training = [cls |-> "SportsWalking", action |-> data[1],
                                 duration |-> data[2], weight |-> data[3],
                                 height |-> data[4]]
            /\ tag = "SWM" =>
                  /\ Len(data) = 5
                  /\ training = [cls |-> "Swimming", action |-> data[1],
                                 duration |-> data[2], weight |-> data[3],
                                 length_pool |-> data[4], count_pool |-> data[5]]

C2_Witness ==
    /\ frame = "script"
    /\ pc = "main"
    /\ packages[idx] = SWM_Sample
    /\ training.length_pool = FromInt(25)
    /\ training.count_pool = FromInt(40)

\* the Running formula on a speed, a weight and a duration
RunningFormula(speed, weight, duration) ==
    FMul(FDiv(FMul(FAdd(FMul(FromInt(18), speed), FLit(179, 100)), weight),
              FromInt(1000)),
         FMul(duration, FromInt(60)))

\* C3: for ('RUN', [15000, 1, 75]) the report has distance 9.75, mean speed
\* 9.75, and calories (18 * 9.75 + 1.79) * 75 / 1000 * 60, which is 797.805
\* to within 0.001.
C3_RunSample ==
    ReportOf(RUN_Sample) =>
        /\ info.distance = FLit(975, 100)
        /\ info.speed = FLit(975, 100)
        /\ info.calories = RunningFormula(info.speed, FromInt(75), FromInt(1))
        /\ Near(info.calories, FLit(797805, 1000), FLit(1, 1000))

C3_Witness ==
    /\ ReportOf(RUN_Sample)
    /\ get_message(info).calories = 797805

\* C3 as stated: the calories are 799.9725 to within 0.001.
C3_Original ==
    ReportOf(RUN_Sample) =>
        /\ info.distance = FLit(975, 100)
        /\ info.speed = FLit(975, 100)
        /\ Near(info.calories, FLit(7999725, 10000), FLit(1, 1000))

\* the SportsWalking formula on a speed, a weight, a duration and a height
WalkingFormula(speed, weight, duration, height) ==
    LET ms == FMul(speed, FLit(278, 1000))
    IN  FMul(FMul(weight, FMul(duration, FromInt(60))),
             FAdd(FLit(35, 1000),
                  FMul(FLit(29, 1000),
                       FDiv(FMul(ms, ms), FDiv(height, FromInt(100))))))

\* C4: for ('WLK', [9000, 1, 75, 180]) the report has distance 5.85, mean
\* speed 5.85, and calories 75 * 60 * (0.035 + 0.029 * ((5.85 * 0.278)^2 /
\* 1.8)), which is 349.25 to within 0.01.
C4_WalkSample ==
    ReportOf(WLK_Sample) =>
        /\ info.distance = FLit(585, 100)
        /\ info.speed = FLit(585, 100)
        /\ info.calories =
              WalkingFormula(info.speed, FromInt(75), FromInt(1), FromInt(180))
        /\ Near(info.calories, FLit(34925, 100), FLit(1, 100))

C4_Witness ==
    /\ ReportOf(WLK_Sample)
    /\ get_message(info).calories = 349252

\* C4 as stated: the calories are 203.49 to within 0.01.
C4_Original ==
    ReportOf(WLK_Sample) =>
        /\ info.distance = FLit(585, 100)
        /\ info.speed = FLit(585, 100)
        /\ Near(info.calories, FLit(20349, 100), FLit(1, 100))

\* C5: for ('SWM', [720, 1, 80, 25, 40]) the report has the distance of the
\* strokes, 720 * 1.38 / 1000 (printed 0.994, below the pool's 1.0), mean
\* speed 1.0 (the pool's 25 * 40 / 1000 over 1 hour) and calories 336.0.
C5_SwimSample ==
    ReportOf(SWM_Sample) =>
        /\ info.distance = FDiv(FMul(FromInt(720), FLit(138, 100)), FromInt(1000))
        /\ get_message(info).distance = 994
        /\ FLess(info.distance, FromInt(1))
        /\ info.speed = FromInt(1)
        /\ info.calories = FromInt(336)

C5_Witness ==
    /\ ReportOf(SWM_Sample)
    /\ get_message(info).speed = 1000
    /\ get_message(info).calories = 336000

\* C5 as stated: the distance reported is the pool's, 25 * 40 / 1000 = 1.0,
\* and equals mean speed * duration.
C5_Original ==
    ReportOf(SWM_Sample) =>
        /\ info.distance = FDiv(FMul(FromInt(25), FromInt(40)), FromInt(1000))
        /\ info.distance = FMul(info.speed, FromInt(1))
        /\ info.speed = FromInt(1)
        /\ info.calories = FromInt(336)

\* the inputs of the data model: duration, weight, height and pool length are
\* positive, the lap count is not negative
InDomain(t) ==
    /\ FLess(FZero, t.duration)
    /\ FLess(FZero, t.weight)
    /\ t.cls = "SportsWalking" => FLess(FZero, t.height)
    /\ t.cls = "Swimming" =>
          FLess(FZero, t.length_pool) /\ FLeq(FZero, t.count_pool)

\* get_spent_calories of t with weight w in place of t's
CaloriesAt(t, w) == Eval(get_spent_calories([t EXCEPT !.weight = w]))

C7_SwimmingMeanSpeed ==
    (pc = "print" /\ training.cls = "Swimming") =>
        LET pool == FDiv(FMul(training.length_pool, training.count_pool),
                         FromInt(1000))
        IN  /\ info.speed = FDiv(pool, training.duration)
            /\ Close(FMul(info.speed, training.duration), pool)
            /\ info.calories =
                  FMul(FMul(FMul(FAdd(info.speed, FLit(11, 10)), FromInt(2)),
                            training.weight),
                       training.duration)
            /\ \A a \in Actions :
                  LET t == [training EXCEPT !.action = a]
                  IN  /\ Eval(get_mean_speed(t)) = Return(info.speed)
                      /\ Eval(get_spent_calories(t)) = Return(info.calories)

C7_Witness ==
    /\ pc = "print"
    /\ training.cls = "Swimming"
    /\ training.count_pool = FromInt(9)
    /\ training.duration = FromInt(3)
    /\ FMul(info.speed, training.duration)
          # FDiv(FMul(training.length_pool, training.count_pool), FromInt(1000))

\* C7 as stated: mean speed * duration equals length_pool * count_pool / 1000.
C7_Original ==
    (pc = "print" /\ training.cls = "Swimming") =>
        /\ info.speed =
              FDiv(FDiv(FMul(training.length_pool, training.count_pool),
                        FromInt(1000)),
                   training.duration)
        /\ FMul(info.speed, training.duration) =
              FDiv(FMul(training.length_pool, training.count_pool), FromInt(1000))
        /\ \A a \in Actions :
              Eval(get_mean_speed([training EXCEPT !.action = a]))
                  = Return(info.speed)

\* the step of a class: 1.38 for Swimming, 0.65 for the others
StepOf(cls) == IF cls = "Swimming" THEN FLit(138, 100) ELSE FLit(65, 100)

\* C8: get_distance is action * LEN_STEP / 1000 with LEN_STEP 0.65 for Running
\* and SportsWalking and 1.38 for Swimming; get_distance() * 1000 / LEN_STEP is
\* action up to rounding (a relative 1e-15); and for Running and SportsWalking
\* the mean speed is that distance over the duration.
C8_DistanceFromAction ==
    /\ (pc \in {"main", "print"}) =>
          /\ Eval(get_distance(training)) =
                Return(FDiv(FMul(training.action, StepOf(training.cls)),
                            FromInt(1000)))
          /\ Close(FDiv(FMul(Eval(get_distance(training)).val, FromInt(1000)),
                        StepOf(training.cls)),
                   training.action)
    /\ (pc = "print") =>
          /\ Return(info.distance) = Eval(get_distance(training))
          /\ training.cls \in {"Running", "SportsWalking"} =>
                info.speed = FDiv(info.distance, training.duration)

C8_Witness ==
    /\ pc = "print"
    /\ training.cls = "Swimming"
    /\ training.action = FromInt(15000)
    /\ FDiv(FMul(info.distance, FromInt(1000)), FLit(138, 100)) # training.action

\* C8 as stated: get_distance() * 1000 / LEN_STEP equals action.
C8_Original ==
    (pc \in {"main", "print"}) =>
        /\ Eval(get_distance(training)) =
              Return(FDiv(FMul(training.action, StepOf(training.cls)),
                          FromInt(1000)))
        /\ FDiv(FMul(Eval(get_distance(training)).val, FromInt(1000)),
                StepOf(training.cls)) = training.action

\* C9: get_spent_calories raises NotImplementedError on a record of the base
\* class and on no other; main on such a record (of a duration other than 0)
\* ends with that error and no line printed; a record read_package returns
\* has one of the three subclasses, so the error never ends the __main__ block.
C9_NotImplementedOnlyForBase ==
    /\ training # None =>
          (Eval(get_spent_calories(training)) = Raise("NotImplementedError"))
              = (training.cls = "Training")
    /\ (training.cls = "Training" /\ pc # "main") =>
          /\ pc = "raised"
          /\ info = None
          /\ stdout = <<>>
          /\ ~IsZero(training.duration) => err = "NotImplementedError"
    /\ err = "NotImplementedError" => frame = "call" /\ training.cls = "Training"
    /\ (frame = "script" /\ training # None) =>
          training.cls \in {"Running", "SportsWalking", "Swimming"}

C9_Witness ==
    /\ frame = "call"
    /\ training.cls = "Training"
    /\ pc = "raised"
    /\ err = "NotImplementedError"

\* the readings of p suit its tag and are in the data model
WellFormed(p) ==
    p[1] \in KnownTags =>
        /\ Len(p[2]) = (CASE p[1] = "SWM" -> 5 [] p[1] = "WLK" -> 4 [] p[1] = "RUN" -> 3)
        /\ FLess(FZero, p[2][2])
        /\ p[1] = "WLK" => FLess(FZero, p[2][4])

\* the line of package p: its report, or the unknown-type message
LineOf(p) ==
    IF p[1] \in KnownTags
    THEN get_message(show_training_info(read_package(p[1], p[2]).val).val)
    ELSE UnknownTypeMessage

\* the lines printed are those of the first packages, in order, and the loop
\* stands behind the last package with a line
LinesInOrder ==
    /\ pc # "raised"
    /\ Len(stdout) <= Len(packages)
    /\ \A k \in 1..Len(stdout) : stdout[k] = LineOf(packages[k])
    /\ idx = Len(stdout) + 1

\* every package of the list is well formed
WellFormedList == \A k \in 1..Len(packages) : WellFormed(packages[k])

\* the steps left to the loop: three per package not yet taken, fewer within
\* a package
StepsLeft ==
    3 * (Len(packages) + 1 - idx)
        + (CASE pc = "loop" -> 3 [] pc \in {"main", "else"} -> 2
             [] pc = "print" -> 1 [] OTHER -> 0)

\* C10: run on a list of well-formed packages, the __main__ block prints one
\* line per package in the order of the list, the k-th line being the k-th
\* package's (its report, or the unknown-type message), and goes on after an
\* unknown type; every step brings the end of the loop nearer, and the loop
\* ends behind the last package only, with a line printed for each.
C10_OneLinePerPackage ==
    /\ [](WellFormedList => LinesInOrder)
    /\ []((frame = "script" /\ pc = "done") => Len(stdout) = Len(packages))
    /\ [][StepsLeft' < StepsLeft /\ StepsLeft' >= 0]_vars

C10_Witness ==
    /\ pc = "done"
    /\ Len(packages) = 3
    /\ packages[1] = XYZ_Package
    /\ packages[2] = RUN_Sample
    /\ packages[3] = XYZ_Package
    /\ Len(stdout) = 3
    /\ stdout[2] = LineOf(RUN_Sample)

====
